---- MODULE Spec2Model ----
(***************************************************************************)
(* Tabletop Audio fulfillment webhook (actions-on-google / Dialogflow).    *)
(*                                                                         *)
(* One conversation session is modelled: the session storage conv.data     *)
(* (json, currentTrack), the turn in progress (request, middleware,        *)
(* awaited catalog fetch, intent handler) and the response fragments the   *)
(* handler passes to conv.ask.                                             *)
(*                                                                         *)
(* Strings are sequences of one-character strings, so that toLowerCase,    *)
(* the two regular-expression replacements of sanitizeTitle, indexOf and   *)
(* Array.includes are computed character by character.                     *)
(***************************************************************************)
EXTENDS Integers, Sequences, FiniteSets, TLC

\* ------------------------------------------------------------------ bounds

\* Longest catalog the remote source returns in the model.
MaxTracks == 2

\* Longest catalog in the specification of the Search intent alone.
MaxSearchTracks == 4

\* ------------------------------------------------------------- JS values

\* An absent value of session storage (conv.data.json / conv.data.currentTrack
\* never assigned), and a present one.
None == <<>>
Some(v) == <<v>>

\* JavaScript's undefined where a string is expected (arr[0] of an empty array,
\* a parameter Dialogflow did not fill).
Undefined == <<"undefined">>

\* ----------------------------------------------------------------- strings

UpperCase == {"A", "B", "C", "X", "Y"}

\* \w of a JavaScript regular expression: [A-Za-z0-9_]
IsWordChar(c) ==
    c \in UpperCase \cup {"a", "b", "c", "x", "y", "z"}
           \cup {"0", "1", "2", "3", "4", "5", "6", "7", "8", "9", "_"}

LowerChar(c) ==
    CASE c = "A" -> "a"
      [] c = "B" -> "b"
      [] c = "C" -> "c"
      [] c = "X" -> "x"
      [] c = "Y" -> "y"
      [] OTHER -> c

\* String.prototype.toLowerCase
toLowerCase(s) == [i \in 1..Len(s) |-> LowerChar(s[i])]

\* .replace(/(\w):(\w)/g, '$1 $2'): a left-to-right scan; a match consumes its
\* three characters, so matches never overlap ("a:b:c" gives "a b:c", whose
\* colon the second replacement then removes).
RECURSIVE ReplaceWordColonWord(_, _)
ReplaceWordColonWord(s, i) ==
    IF i > Len(s) THEN <<>>
    ELSE IF /\ i + 2 <= Len(s)
            /\ IsWordChar(s[i])
            /\ s[i + 1] = ":"
            /\ IsWordChar(s[i + 2])
         THEN <<s[i], " ", s[i + 2]>> \o ReplaceWordColonWord(s, i + 3)
         ELSE <<s[i]>> \o ReplaceWordColonWord(s, i + 1)

\* .replace(/:/g, '')
RemoveColons(s) == SelectSeq(s, LAMBDA c : c # ":")

sanitizeTitle(title) ==
    RemoveColons(ReplaceWordColonWord(toLowerCase(title), 1))

\* String.prototype.indexOf: the least 0-based offset of sub in s, or -1.
indexOf(s, sub) ==
    LET at == {k \in 0..(Len(s) - Len(sub)) :
                  SubSeq(s, k + 1, k + Len(sub)) = sub}
    IN  IF at = {} THEN -1
        ELSE CHOOSE k \in at : \A j \in at : k <= j

\* Array.prototype.includes on an array of strings
includes(arr, x) == \E i \in 1..Len(arr) : arr[i] = x

\* Array.prototype.map(s => s.toLowerCase())
mapToLowerCase(arr) == [i \in 1..Len(arr) |-> toLowerCase(arr[i])]

\* Array.prototype.slice(0, n)
slice0(arr, n) == SubSeq(arr, 1, IF Len(arr) < n THEN Len(arr) ELSE n)

\* Array.prototype.join / an array inside a template string (separator ",")
RECURSIVE join(_, _)
join(arr, sep) ==
    IF Len(arr) = 0 THEN <<>>
    ELSE IF Len(arr) = 1 THEN arr[1]
    ELSE arr[1] \o sep \o join(Tail(arr), sep)

\* ------------------------------------------------------------------ catalog

\* TabletopAudioTrack values the remote source may return.  The pool holds two
\* titles with the same sanitized form ("A:b", "a b"), a "word: word" title,
\* upper-case genres, a genre that is part of other tracks' titles ("B"), a
\* tag shared by two tracks ("x"), a tag holding a colon ("x:y") and an empty
\* tag list.
Track1 ==
    [track_title |-> <<"A", ":", "b">>,
     track_genre |-> << <<"C">> >>,
     tags        |-> << <<"x">>, <<"x", ":", "y">> >>,
     link        |-> "link1", large_image |-> "image1", flavor_text |-> "flavor1"]

Track2 ==
    [track_title |-> <<"a", " ", "b">>,
     track_genre |-> << <<"c">> >>,
     tags        |-> << >>,
     link        |-> "link2", large_image |-> "image2", flavor_text |-> "flavor2"]

Track3 ==
    [track_title |-> <<"Y", ":", " ", "a">>,
     track_genre |-> << <<"B">>, <<"C">> >>,
     tags        |-> << <<"x">> >>,
     link        |-> "link3", large_image |-> "image3", flavor_text |-> "flavor3"]

TrackPool == {Track1, Track2, Track3}

\* Two more tracks for the specification of the Search intent alone: a
\* "word: word" title with an empty genre list, and a genre ("cb") that
\* contains a search term without being equal to it.
Track4 ==
    [track_title |-> <<"B", ":", " ", "y">>,
     track_genre |-> << >>,
     tags        |-> << <<"z">> >>,
     link        |-> "link4", large_image |-> "image4", flavor_text |-> "flavor4"]

Track5 ==
    [track_title |-> <<"Z">>,
     track_genre |-> << <<"c", "b">> >>,
     tags        |-> << <<"X">> >>,
     link        |-> "link5", large_image |-> "image5", flavor_text |-> "flavor5"]

SearchPool == TrackPool \cup {Track4, Track5}

\* The track lists (json.tracks) a successful fetch may deliver: every
\* non-empty list of distinct pool tracks, in every order, up to MaxTracks.
\* (A zero-track catalog is outside the handlers' precondition.)
Catalogs ==
    UNION {{c \in [1..n -> TrackPool] :
              \A i, j \in 1..n : i # j => c[i] # c[j]} : n \in 1..MaxTracks}

\* The catalogs of the specification of the Search intent alone.
SearchCatalogs ==
    UNION {{c \in [1..n -> SearchPool] :
              \A i, j \in 1..n : i # j => c[i] # c[j]} : n \in 1..MaxSearchTracks}

\* Values of the `search` parameter of the Play and Search intents.
SearchTerms ==
    { <<>>,
      <<"b">>,
      <<"A", ":", "b">>,
      <<"a", " ", "b">>,
      <<"y", " ", "a">>,
      <<"X">>,
      <<"x", ":", "y">>,
      <<"y", "y">> }

\* Values of the `search` parameter in the specification of the Search intent
\* alone: a term every title contains, one that hits by title and by genre,
\* one that hits by tag only, and one that holds a colon.
SearchSpecTerms ==
    { <<>>,
      <<"b">>,
      <<"X">>,
      <<"A", ":", "b">> }

\* Values of the optional parameters of the Play Entity intent.
EntityTitles == {Undefined, <<"a", " ", "b">>}
EntityGenres == {Undefined, <<>>, <<"c">>}
EntityTags   == {Undefined, <<"x", ":", "y">>}

MediaStatuses == {"FINISHED", "FAILED", "none"}

\* ---------------------------------------------------------------- responses
\* A fixed chip or message is written as a one-element string such as
\* <<"Help">>; only titles, genres, tags and search terms are spelled out.

\* The fragments a handler passes to conv.ask, in order.
Fragment(kind, msg, args, count, items, media) ==
    [kind |-> kind, msg |-> msg, args |-> args, count |-> count,
     items |-> items, media |-> media]

\* conv.ask(string)
Text(msg, args) == Fragment("text", msg, args, 0, <<>>, None)

\* conv.ask(string) whose text holds a number
TextCount(msg, n) == Fragment("text", msg, <<>>, n, <<>>, None)

\* new SimpleResponse({text, speech}); args are the values woven into speech
SimpleResponse(msg, args) == Fragment("simple", msg, args, 0, <<>>, None)

\* new Suggestions(...)
Suggestions(items) == Fragment("suggestions", "", <<>>, 0, items, None)

\* new BasicCard(...)
BasicCard(title) == Fragment("card", title, <<>>, 0, <<>>, None)

generateMediaResponse(track) ==
    Fragment("media", "", <<>>, 0, <<>>,
             Some([name        |-> track.track_title,
                   url         |-> track.link,
                   description |-> track.flavor_text,
                   image       |-> track.large_image]))

\* -------------------------------------------------------------- suggestions

\* The loop bound of getSuggestions ("Generate six suggestions").
NumSuggestions == 6

\* arr[0] of a JavaScript array: undefined when the array is empty.
first(arr) == IF Len(arr) = 0 THEN Undefined ELSE arr[1]

getSuggestionTrackTitle(track) == track.track_title

getSuggestionTrackGenre(track) == first(track.track_genre)

getSuggestionTag(track) == first(track.tags)

\* suggestionGenerators[mod](track)
suggestionGenerators(mod, track) ==
    CASE mod = 0 -> getSuggestionTrackTitle(track)
      [] mod = 1 -> getSuggestionTrackGenre(track)
      [] mod = 2 -> getSuggestionTag(track)

\* The values Math.floor(Math.random() * n) can take.
RandomIndex(n) == 0..(n - 1)

\* The six draws of one getSuggestions call over n tracks; draws[k] is the
\* draw of loop index i = k - 1.
Draws(n) == [1..NumSuggestions -> RandomIndex(n)]

\* getSuggestions(tracks) with its random draws made explicit.
getSuggestions(tracks, draws) ==
    [k \in 1..NumSuggestions |->
        suggestionGenerators((k - 1) % 3, tracks[draws[k] + 1])]

\* ------------------------------------------------------------------ handlers
\* Each handler is a function of the session data it reads, its parameters
\* and its random draws, giving the fragments it emits and the currentTrack
\* it leaves in conv.data.

Result(response, currentTrack) ==
    [response |-> response, currentTrack |-> currentTrack]

\* A loop that stops at the first track matching in any way: by title, or by
\* genre or tag.
RECURSIVE searchLoopFirstAnyMatch(_, _, _, _)
searchLoopFirstAnyMatch(tracks, search, i, searchResults) ==
    IF i > Len(tracks)
    THEN [found |-> None, searchResults |-> searchResults]
    ELSE LET track  == tracks[i]
             title  == sanitizeTitle(track.track_title)
             genres == mapToLowerCase(track.track_genre)
             tags   == mapToLowerCase(track.tags)
         IN  IF \/ indexOf(title, search) > -1
                \/ includes(genres, search)
                \/ includes(tags, search)
             THEN [found |-> Some(track), searchResults |-> searchResults]
             ELSE searchLoopFirstAnyMatch(tracks, search, i + 1, searchResults)

\* A loop without the early return: a later title hit replaces an earlier one.
RECURSIVE searchLoopLastHit(_, _, _, _)
searchLoopLastHit(tracks, search, i, searchResults) ==
    IF i > Len(tracks)
    THEN [found |-> None, searchResults |-> searchResults]
    ELSE LET track == tracks[i]
             title == sanitizeTitle(track.track_title)
             genres == mapToLowerCase(track.track_genre)
             tags   == mapToLowerCase(track.tags)
             rest  == searchLoopLastHit(tracks, search, i + 1,
                         IF includes(genres, search) \/ includes(tags, search)
                         THEN Append(searchResults, track) ELSE searchResults)
         IN  IF indexOf(title, search) > -1 /\ rest.found = None
             THEN [found |-> Some(track), searchResults |-> searchResults]
             ELSE rest

\* The for-loop of searchAndPlay from track i on: it stops at the first track
\* whose sanitized title contains the search, and collects the tracks with an
\* equal genre or tag on the way.
RECURSIVE searchLoop(_, _, _, _)
searchLoop(tracks, search, i, searchResults) ==
    IF i > Len(tracks)
    THEN [found |-> None, searchResults |-> searchResults]
    ELSE LET track  == tracks[i]
             title  == sanitizeTitle(track.track_title)
             genres == mapToLowerCase(track.track_genre)
             tags   == mapToLowerCase(track.tags)
         IN  IF indexOf(title, search) > -1
             THEN [found |-> Some(track), searchResults |-> searchResults]
             ELSE IF includes(genres, search) \/ includes(tags, search)
                  THEN searchLoop(tracks, search, i + 1,
                                  Append(searchResults, track))
                  ELSE searchLoop(tracks, search, i + 1, searchResults)

\* The number of tracks the random category pick of searchAndPlay chooses
\* among (1 when the pick is not made).
PickRange(tracks, searchString) ==
    LET r == searchLoop(tracks, sanitizeTitle(searchString), 1, <<>>)
    IN  IF r.found = None /\ Len(r.searchResults) > 0
        THEN Len(r.searchResults) ELSE 1

\* A searchAndPlay whose category branch plays the picked track but stores
\* the first candidate as currentTrack.
searchAndPlayStoresFirst(tracks, currentTrack, searchString, pick, draws) ==
    LET search == sanitizeTitle(searchString)
        r      == searchLoop(tracks, search, 1, <<>>)
        suggestions == getSuggestions(tracks, draws)
    IN  IF r.found # None
        THEN LET track == r.found[1]
             IN  Result(<<Text("Here is", <<track.track_title>>),
                          generateMediaResponse(track),
                          Suggestions(suggestions)>>,
                        Some(track))
        ELSE IF Len(r.searchResults) > 0
        THEN LET track == r.searchResults[pick + 1]
             IN  Result(<<Text("I found several tracks for the category",
                               <<search, track.track_title>>),
                          generateMediaResponse(track),
                          Suggestions(suggestions)>>,
                        Some(r.searchResults[1]))
        ELSE Result(<<SimpleResponse("I can't find a track with that description",
                                     <<suggestions[1]>>),
                      Suggestions(suggestions)>>,
                    currentTrack)

\* A searchAndPlay whose no-match branch forgets the track that was playing.
searchAndPlayClearsOnMiss(tracks, currentTrack, searchString, pick, draws) ==
    LET search == sanitizeTitle(searchString)
        r      == searchLoop(tracks, search, 1, <<>>)
        suggestions == getSuggestions(tracks, draws)
    IN  IF r.found # None
        THEN LET track == r.found[1]
             IN  Result(<<Text("Here is", <<track.track_title>>),
                          generateMediaResponse(track),
                          Suggestions(suggestions)>>,
                        Some(track))
        ELSE IF Len(r.searchResults) > 0
        THEN LET track == r.searchResults[pick + 1]
             IN  Result(<<Text("I found several tracks for the category",
                               <<search, track.track_title>>),
                          generateMediaResponse(track),
                          Suggestions(suggestions)>>,
                        Some(track))
        ELSE Result(<<SimpleResponse("I can't find a track with that description",
                                     <<suggestions[1]>>),
                      Suggestions(suggestions)>>,
                    None)

\* A searchAndPlay that stores the track under its sanitized title (the
\* loop's `title`) instead of the catalog's track object.
searchAndPlayStoresSanitized(tracks, currentTrack, searchString, pick, draws) ==
    LET search == sanitizeTitle(searchString)
        r      == searchLoop(tracks, search, 1, <<>>)
        suggestions == getSuggestions(tracks, draws)
        stored(track) ==
            Some([track EXCEPT !.track_title = sanitizeTitle(track.track_title)])
    IN  IF r.found # None
        THEN LET track == r.found[1]
             IN  Result(<<Text("Here is", <<track.track_title>>),
                          generateMediaResponse(track),
                          Suggestions(suggestions)>>,
                        stored(track))
        ELSE IF Len(r.searchResults) > 0
        THEN LET track == r.searchResults[pick + 1]
             IN  Result(<<Text("I found several tracks for the category",
                               <<search, track.track_title>>),
                          generateMediaResponse(track),
                          Suggestions(suggestions)>>,
                        stored(track))
        ELSE Result(<<SimpleResponse("I can't find a track with that description",
                                     <<suggestions[1]>>),
                      Suggestions(suggestions)>>,
                    currentTrack)

\* searchAndPlay(conv, searchString); pick is the random index into
\* searchResults, draws the draws of getSuggestions.
searchAndPlay(tracks, currentTrack, searchString, pick, draws) ==
    LET search == sanitizeTitle(searchString)
        r      == searchLoop(tracks, search, 1, <<>>)
        suggestions == getSuggestions(tracks, draws)
    IN  IF r.found # None
        THEN LET track == r.found[1]
             IN  Result(<<Text("Here is", <<track.track_title>>),
                          generateMediaResponse(track),
                          Suggestions(suggestions)>>,
                        Some(track))
        ELSE IF Len(r.searchResults) > 0
        THEN LET track == r.searchResults[pick + 1]
             IN  Result(<<Text("I found several tracks for the category",
                               <<search, track.track_title>>),
                          generateMediaResponse(track),
                          Suggestions(suggestions)>>,
                        Some(track))
        ELSE Result(<<SimpleResponse("I can't find a track with that description",
                                     <<suggestions[1]>>),
                      Suggestions(suggestions)>>,
                    currentTrack)

\* The first truthy value of a || b || c (undefined and "" are falsy); the
\* last operand when none is.
firstTruthy(a, b, c) ==
    IF a # Undefined /\ a # <<>> THEN a
    ELSE IF b # Undefined /\ b # <<>> THEN b
    ELSE c

\* The 'Play Entity' handler.
handlePlayEntity(tracks, currentTrack, title, genre, tag, pick, draws) ==
    LET searchString == firstTruthy(title, genre, tag)
    IN  IF searchString = Undefined \/ searchString = <<>>
        THEN Result(<<Text("I apologize, I do not know what you are looking for",
                           <<>>)>>,
                    currentTrack)
        ELSE searchAndPlay(tracks, currentTrack, searchString, pick, draws)

\* A Repeat handler without the guard on a missing track: it falls back to
\* the newest track of the catalog.
handleRepeatNoGuard(tracks, currentTrack, draws) ==
    LET track == IF currentTrack = None THEN tracks[1] ELSE currentTrack[1]
    IN  Result(<<Text("Once again, here's", <<track.track_title>>),
                 generateMediaResponse(track),
                 Suggestions(getSuggestions(tracks, draws))>>,
               currentTrack)

\* The 'Repeat' handler.
handleRepeat(tracks, currentTrack, draws) ==
    IF currentTrack = None
    THEN Result(<<Text("Sorry, I do not know what track you want to play", <<>>),
                  Suggestions(getSuggestions(tracks, draws))>>,
                currentTrack)
    ELSE LET track == currentTrack[1]
         IN  Result(<<Text("Once again, here's", <<track.track_title>>),
                      generateMediaResponse(track),
                      Suggestions(getSuggestions(tracks, draws))>>,
                    currentTrack)

\* The 'Current' handler.
handleCurrent(tracks, currentTrack, draws) ==
    IF currentTrack = None
    THEN Result(<<Text("Sorry, I don't think anything is playing", <<>>),
                  Suggestions(getSuggestions(tracks, draws))>>,
                currentTrack)
    ELSE LET track == currentTrack[1]
         IN  Result(<<Text("This is ... from Tabletop Audio",
                           <<track.track_title, <<track.flavor_text>> >>),
                      Suggestions(getSuggestions(tracks, draws))>>,
                    currentTrack)

trackTitles(tracks) == [i \in 1..Len(tracks) |-> tracks[i].track_title]

\* The 'New' handler.
handleNew(tracks, currentTrack) ==
    LET newestTracks == slice0(tracks, 3)
    IN  Result(<<Text("The last three tracks added to Tabletop Audio are",
                      <<join(trackTitles(newestTracks), <<",">>)>>),
                 Suggestions(trackTitles(newestTracks))>>,
               currentTrack)

\* The 'Help' handler.
handleHelp(tracks, currentTrack) ==
    Result(<<Text("Tabletop Audio is the premier ...",
                  <<tracks[1].track_title,
                    join(tracks[1].track_genre, <<",">>)>>),
             BasicCard("Tabletop Audio")>>,
           currentTrack)

\* The 'Default Welcome Intent' handler; seen is conv.user.last.seen.
handleWelcome(tracks, currentTrack, seen, draws) ==
    Result((IF seen
            THEN <<SimpleResponse("Welcome back!", <<tracks[1].track_title>>),
                   Suggestions(<<tracks[1].track_title>>),
                   Suggestions(<< <<"What's new?">> >>)>>
            ELSE <<SimpleResponse("Welcome to Tabletop Audio!",
                                  <<tracks[1].track_title,
                                    join(tracks[1].track_genre, <<",">>)>>),
                   Suggestions(<< <<"Help">> >>),
                   Suggestions(<< <<"What's new?">> >>)>>)
           \o <<Suggestions(getSuggestions(tracks, draws))>>,
           currentTrack)

\* A Search loop that compares sanitized titles, as searchAndPlay does.
RECURSIVE searchTrackOutSanitized(_, _, _)
searchTrackOutSanitized(tracks, search, i) ==
    IF i > Len(tracks) THEN <<>>
    ELSE LET track  == tracks[i]
             title  == sanitizeTitle(track.track_title)
             genres == mapToLowerCase(track.track_genre)
             tags   == mapToLowerCase(track.tags)
         IN  (IF \/ indexOf(title, search) > -1
                 \/ includes(genres, search)
                 \/ includes(tags, search)
              THEN <<track.track_title>> ELSE <<>>)
             \o searchTrackOutSanitized(tracks, search, i + 1)

\* The loop of the 'Search' handler from track i on: the titles of the tracks
\* whose lower-cased title contains the search or that have an equal genre or
\* tag.
RECURSIVE searchTrackOut(_, _, _)
searchTrackOut(tracks, search, i) ==
    IF i > Len(tracks) THEN <<>>
    ELSE LET track  == tracks[i]
             title  == toLowerCase(track.track_title)
             genres == mapToLowerCase(track.track_genre)
             tags   == mapToLowerCase(track.tags)
         IN  (IF \/ indexOf(title, search) > -1
                 \/ includes(genres, search)
                 \/ includes(tags, search)
              THEN <<track.track_title>> ELSE <<>>)
             \o searchTrackOut(tracks, search, i + 1)

\* The 'Search' handler.
handleSearch(tracks, currentTrack, searchString, draws) ==
    LET trackOut == searchTrackOut(tracks, toLowerCase(searchString), 1)
        suggestions == getSuggestions(tracks, draws)
    IN  IF Len(trackOut) = 1
        THEN Result(<<Text("There is 1 track. It is called", <<trackOut[1]>>)>>,
                    currentTrack)
        ELSE IF Len(trackOut) > 1
        THEN Result(<<TextCount("There are ... tracks that I found", Len(trackOut)),
                      Text("The first three are called",
                           <<join(slice0(trackOut, 3), <<",", " ">>)>>),
                      Suggestions(slice0(trackOut, 8))>>,
                    currentTrack)
        ELSE Result(<<SimpleResponse("I am unable to find that audio",
                                     <<suggestions[1]>>),
                      Suggestions(suggestions)>>,
                    currentTrack)

\* The number of tracks the draws of the 'Search' handler range over: it calls
\* getSuggestions only when nothing was found (1 when it makes no draw).
SearchDrawRange(tracks, searchString) ==
    IF Len(searchTrackOut(tracks, toLowerCase(searchString), 1)) = 0
    THEN Len(tracks) ELSE 1

\* The 'actions.intent.MEDIA_STATUS' handler; status is the status of the
\* MEDIA_STATUS argument, "none" when the argument is missing.
handleMediaStatus(tracks, currentTrack, status, draws) ==
    Result(<<Text((IF status = "FINISHED"
                   THEN "Hope you enjoyed that song"
                   ELSE "Unknown media status received"), <<>>),
             Suggestions(<< <<"Repeat">> >>),
             Suggestions(getSuggestions(tracks, draws))>>,
           currentTrack)

\* -------------------------------------------------------------------- state

VARIABLES
    json,             \* conv.data.json: None, or Some(track list)
    currentTrack,     \* conv.data.currentTrack: None, or Some(track)
    sessionEntities,  \* conv.sessionEntities of the turn in progress
    pc,               \* "idle", "middleware", "fetching", "handler", "done"
    req,              \* the intent and parameters of the turn
    response,         \* the fragments passed to conv.ask in the turn
    outcome,          \* "none", "pending", "ok" or "failed": how it ended
    attempts,         \* fetches started in the turn
    fetches,          \* fetches that succeeded in the session
    lastMedia         \* the media object of the latest Play that found a match

vars == <<json, currentTrack, sessionEntities, pc, req, response, outcome,
          attempts, fetches, lastMedia>>

NoEntities == [track |-> {}, genre |-> {}, tag |-> {}]

Req(intent, searchString, title, genre, tag, seen, status) ==
    [intent |-> intent, search |-> searchString, title |-> title,
     genre |-> genre, tag |-> tag, seen |-> seen, status |-> status]

\* What the intent router can hand to the webhook.
Requests ==
    {Req(i, Undefined, Undefined, Undefined, Undefined, FALSE, "none") :
        i \in {"Repeat", "Current", "New", "Help"}}
    \cup {Req(i, t, Undefined, Undefined, Undefined, FALSE, "none") :
            i \in {"Play", "Search"}, t \in SearchTerms}
    \cup {Req("Play Entity", Undefined, t, g, a, FALSE, "none") :
            t \in EntityTitles, g \in EntityGenres, a \in EntityTags}
    \cup {Req("Default Welcome Intent", Undefined, Undefined, Undefined,
               Undefined, b, "none") : b \in BOOLEAN}
    \cup {Req("actions.intent.MEDIA_STATUS", Undefined, Undefined, Undefined,
               Undefined, FALSE, st) : st \in MediaStatuses}

NoReq == Req("none", Undefined, Undefined, Undefined, Undefined, FALSE, "none")

Init ==
    /\ json = None
    /\ currentTrack = None
    /\ sessionEntities = NoEntities
    /\ pc = "idle"
    /\ req = NoReq
    /\ response = <<>>
    /\ outcome = "none"
    /\ attempts = 0
    /\ fetches = 0
    /\ lastMedia = None

\* setSessionEntities: the titles, genres and tags of the catalog.
setSessionEntities(tracks) ==
    [track |-> {tracks[i].track_title : i \in 1..Len(tracks)},
     genre |-> UNION {{tracks[i].track_genre[k] :
                          k \in 1..Len(tracks[i].track_genre)} :
                      i \in 1..Len(tracks)},
     tag   |-> UNION {{tracks[i].tags[k] : k \in 1..Len(tracks[i].tags)} :
                      i \in 1..Len(tracks)}]

\* A cacheResults without its `if (!conv.data.json)` guard: it always fetches.
afterCacheResultsNoGuard(j) == "fetching"

\* A rejected fetch that is swallowed: the turn goes on to the handler.
afterFetchFailureSwallowed == "handler"

\* Where the middleware stands after calling cacheResults: suspended in
\* `await fetch(...)` when conv.data.json is not set, past it otherwise.
afterCacheResults(j) == IF j = None THEN "fetching" ELSE "handler"

\* Where the turn stands after the awaited fetch rejects: the rejection
\* leaves cacheResults and the middleware, and the turn is over.
afterFetchFailure == "done"

\* A request arrives: a new turn, with a fresh conv and nothing asked yet.
Request ==
    /\ pc = "idle"
    /\ \E r \in Requests : req' = r
    /\ pc' = "middleware"
    /\ outcome' = "pending"
    /\ UNCHANGED <<json, currentTrack, sessionEntities, response, attempts,
                   fetches, lastMedia>>

\* app.middleware up to its first suspension or its end.
Middleware ==
    /\ pc = "middleware"
    /\ pc' = afterCacheResults(json)
    /\ IF afterCacheResults(json) = "fetching"
       THEN /\ attempts' = attempts + 1
            /\ UNCHANGED sessionEntities
       ELSE /\ attempts' = attempts
            /\ sessionEntities' = setSessionEntities(json[1])
    /\ UNCHANGED <<json, currentTrack, req, response, outcome, fetches,
                   lastMedia>>

\* The awaited fetch and response.json() resolve: cacheResults stores the
\* catalog and the middleware goes on to setSessionEntities.
FetchSucceed ==
    /\ pc = "fetching"
    /\ \E tracks \in Catalogs :
          /\ json' = Some(tracks)
          /\ sessionEntities' = setSessionEntities(tracks)
    /\ fetches' = fetches + 1
    /\ pc' = "handler"
    /\ UNCHANGED <<currentTrack, req, response, outcome, attempts, lastMedia>>

\* The awaited fetch (or the JSON parse) rejects.
FetchFail ==
    /\ pc = "fetching"
    /\ pc' = afterFetchFailure
    /\ outcome' = IF afterFetchFailure = "done" THEN "failed" ELSE outcome
    /\ UNCHANGED <<json, currentTrack, sessionEntities, req, response,
                   attempts, fetches, lastMedia>>

\* The media objects among a turn's fragments.
MediaOf(fragments) == SelectSeq(fragments, LAMBDA f : f.kind = "media")

\* A handler returns: its fragments are the turn's response and conv.data
\* holds the currentTrack it left.
Finish(r) ==
    /\ response' = r.response
    /\ currentTrack' = r.currentTrack
    /\ pc' = "done"
    /\ outcome' = "ok"
    /\ UNCHANGED <<json, sessionEntities, req, attempts, fetches>>

Welcome ==
    /\ pc = "handler" /\ req.intent = "Default Welcome Intent"
    /\ \E draws \in Draws(Len(json[1])) :
          Finish(handleWelcome(json[1], currentTrack, req.seen, draws))
    /\ UNCHANGED lastMedia

PlayFinish(r) ==
    /\ Finish(r)
    /\ lastMedia' = IF MediaOf(r.response) # <<>>
                    THEN MediaOf(r.response)[1].media
                    ELSE lastMedia

Play ==
    /\ pc = "handler" /\ req.intent = "Play"
    /\ \E pick \in RandomIndex(PickRange(json[1], req.search)) :
       \E draws \in Draws(Len(json[1])) :
          PlayFinish(searchAndPlay(json[1], currentTrack, req.search, pick, draws))

PlayEntity ==
    /\ pc = "handler" /\ req.intent = "Play Entity"
    /\ \E pick \in RandomIndex(PickRange(json[1],
                                 firstTruthy(req.title, req.genre, req.tag))) :
       \E draws \in Draws(Len(json[1])) :
          PlayFinish(handlePlayEntity(json[1], currentTrack, req.title,
                                      req.genre, req.tag, pick, draws))

Repeat ==
    /\ pc = "handler" /\ req.intent = "Repeat"
    /\ \E draws \in Draws(Len(json[1])) :
          Finish(handleRepeat(json[1], currentTrack, draws))
    /\ UNCHANGED lastMedia

Current ==
    /\ pc = "handler" /\ req.intent = "Current"
    /\ \E draws \in Draws(Len(json[1])) :
          Finish(handleCurrent(json[1], currentTrack, draws))
    /\ UNCHANGED lastMedia

New ==
    /\ pc = "handler" /\ req.intent = "New"
    /\ Finish(handleNew(json[1], currentTrack))
    /\ UNCHANGED lastMedia

Help ==
    /\ pc = "handler" /\ req.intent = "Help"
    /\ Finish(handleHelp(json[1], currentTrack))
    /\ UNCHANGED lastMedia

Search ==
    /\ pc = "handler" /\ req.intent = "Search"
    /\ \E draws \in Draws(SearchDrawRange(json[1], req.search)) :
          Finish(handleSearch(json[1], currentTrack, req.search, draws))
    /\ UNCHANGED lastMedia

MediaStatus ==
    /\ pc = "handler" /\ req.intent = "actions.intent.MEDIA_STATUS"
    /\ \E draws \in Draws(Len(json[1])) :
          Finish(handleMediaStatus(json[1], currentTrack, req.status, draws))
    /\ UNCHANGED lastMedia

\* The turn's HTTP response has been sent (the fragments, or the failure):
\* the conv object of the turn is gone, conv.data stays with the session.
Reply ==
    /\ pc = "done"
    /\ pc' = "idle"
    /\ req' = NoReq
    /\ response' = <<>>
    /\ outcome' = "none"
    /\ attempts' = 0
    /\ sessionEntities' = NoEntities
    /\ UNCHANGED <<json, currentTrack, fetches, lastMedia>>

Next ==
    \/ Request
    \/ Middleware
    \/ FetchSucceed
    \/ FetchFail
    \/ Welcome
    \/ Play
    \/ PlayEntity
    \/ Repeat
    \/ Current
    \/ New
    \/ Help
    \/ Search
    \/ MediaStatus
    \/ Reply

Spec == Init /\ [][Next]_vars

\* The Search intent alone, in sessions whose catalog has been fetched, over
\* catalogs long enough for more than three hits.
SearchInit ==
    /\ json \in {Some(c) : c \in SearchCatalogs}
    /\ currentTrack = None
    /\ sessionEntities = NoEntities
    /\ pc = "idle"
    /\ req = NoReq
    /\ response = <<>>
    /\ outcome = "none"
    /\ attempts = 0
    /\ fetches = 1
    /\ lastMedia = None

SearchRequest ==
    /\ pc = "idle"
    /\ \E t \in SearchSpecTerms :
          req' = Req("Search", t, Undefined, Undefined, Undefined, FALSE, "none")
    /\ pc' = "middleware"
    /\ outcome' = "pending"
    /\ UNCHANGED <<json, currentTrack, sessionEntities, response, attempts,
                   fetches, lastMedia>>

SearchNext ==
    \/ SearchRequest
    \/ Middleware
    \/ Search
    \/ Reply

SpecSearch == SearchInit /\ [][SearchNext]_vars

\* ------------------------------------------------------------------- claims

\* The catalog of the session, once fetched.
Tracks == json[1]

\* s contains sub as a contiguous substring.
Contains(s, sub) ==
    \E k \in 0..(Len(s) - Len(sub)) :
        \A m \in 1..Len(sub) : s[k + m] = sub[m]

\* The least element of a non-empty set of positions.
Least(S) == CHOOSE i \in S : \A j \in S : i <= j

\* A turn of the Play or Play Entity intent whose handler has returned, and the
\* search string it handed to searchAndPlay (Undefined when it handed none).
PlayDone ==
    pc = "done" /\ outcome = "ok" /\ req.intent \in {"Play", "Play Entity"}

PlayTerm ==
    IF req.intent = "Play" THEN req.search
    ELSE IF req.title # Undefined /\ req.title # <<>> THEN req.title
    ELSE IF req.genre # Undefined /\ req.genre # <<>> THEN req.genre
    ELSE IF req.tag # Undefined /\ req.tag # <<>> THEN req.tag
    ELSE Undefined

\* Positions of the tracks whose normalized title contains the normalized term.
TitleHits(tracks, term) ==
    {i \in 1..Len(tracks) :
        Contains(sanitizeTitle(tracks[i].track_title), sanitizeTitle(term))}

\* Positions of the tracks one of whose genres or tags equals the term, case
\* ignored.
CategoryHits(tracks, term) ==
    {i \in 1..Len(tracks) :
        \/ \E k \in 1..Len(tracks[i].track_genre) :
              toLowerCase(tracks[i].track_genre[k]) = toLowerCase(term)
        \/ \E k \in 1..Len(tracks[i].tags) :
              toLowerCase(tracks[i].tags[k]) = toLowerCase(term)}

\* The tracks at the positions S, in catalog order.
InCatalogOrder(tracks, S) ==
    [k \in 1..Cardinality(S) |->
        tracks[CHOOSE i \in S : Cardinality({j \in S : j <= i}) = k]]

\* The turn answered with an exact-title match on track t.
ExactTitleReply(t) ==
    /\ Len(response) = 3
    /\ response[1] = Text("Here is", <<t.track_title>>)
    /\ response[2] = generateMediaResponse(t)
    /\ response[3].kind = "suggestions"
    /\ currentTrack = Some(t)

\* The turn answered with a category match on track t.
CategoryReply(t) ==
    /\ Len(response) = 3
    /\ response[1].msg = "I found several tracks for the category"
    /\ response[1].args[2] = t.track_title
    /\ response[2] = generateMediaResponse(t)
    /\ response[3].kind = "suggestions"
    /\ currentTrack = Some(t)

\* C1: whenever some track's normalized title contains the normalized search
\* term, Play plays the first such track in catalog order, also when tracks
\* before it match the term by genre or tag.
C1_PlayFirstTitleHit ==
    (PlayDone /\ PlayTerm # Undefined /\ TitleHits(Tracks, PlayTerm) # {})
        => ExactTitleReply(Tracks[Least(TitleHits(Tracks, PlayTerm))])

\* C1 witness: a Play turn has played the track at a later position by title
\* although an earlier track matches the term by genre or tag.
C1_Witness ==
    /\ PlayDone /\ PlayTerm # Undefined
    /\ TitleHits(Tracks, PlayTerm) # {}
    /\ \E i \in CategoryHits(Tracks, PlayTerm) :
          i < Least(TitleHits(Tracks, PlayTerm))
    /\ currentTrack = Some(Tracks[Least(TitleHits(Tracks, PlayTerm))])

\* C2 (as claimed): for a search term equal, case ignored, to a genre or tag of
\* some track and contained in no title, Play yields a category match: the
\* candidates are exactly the tracks having that genre or tag, in catalog
\* order, and the track played is one of them.
C2_CategoryMatchExact ==
    (/\ PlayDone /\ PlayTerm # Undefined
     /\ CategoryHits(Tracks, PlayTerm) # {}
     /\ TitleHits(Tracks, PlayTerm) = {}
     /\ \A i \in 1..Len(Tracks) :
           ~Contains(toLowerCase(Tracks[i].track_title), toLowerCase(PlayTerm)))
        => /\ searchLoop(Tracks, sanitizeTitle(PlayTerm), 1, <<>>).searchResults
                = InCatalogOrder(Tracks, CategoryHits(Tracks, PlayTerm))
           /\ \E i \in CategoryHits(Tracks, PlayTerm) : CategoryReply(Tracks[i])

\* C3 (as claimed): Play with the normalized title of a catalog track answers
\* with an exact-title match on that very track.
C3_NormalizedTitlePlaysThatTrack ==
    \A i \in 1..(IF PlayDone /\ req.intent = "Play" THEN Len(Tracks) ELSE 0) :
        req.search = sanitizeTitle(Tracks[i].track_title)
            => ExactTitleReply(Tracks[i])

\* C3 (amended): Play with the normalized title of a catalog track always
\* answers with an exact-title match, on the first track in catalog order
\* whose normalized title contains that term; that is the track the title was
\* taken from whenever no earlier track's normalized title contains the term.
C3_NormalizedTitlePlaysFirstHit ==
    \A i \in 1..(IF PlayDone /\ req.intent = "Play" THEN Len(Tracks) ELSE 0) :
        req.search = sanitizeTitle(Tracks[i].track_title)
            => /\ ExactTitleReply(Tracks[Least(TitleHits(Tracks, req.search))])
               /\ (\A j \in 1..(i - 1) : j \notin TitleHits(Tracks, req.search))
                     => ExactTitleReply(Tracks[i])

\* C3 witness: Play was given the normalized form of a title that holds a
\* colon and upper case, and answered with the track of that title.
C3_Witness ==
    /\ PlayDone /\ req.intent = "Play"
    /\ \E i \in 1..Len(Tracks) :
          /\ req.search = sanitizeTitle(Tracks[i].track_title)
          /\ req.search # Tracks[i].track_title
          /\ ExactTitleReply(Tracks[i])

\* The turn found a match: its first fragment announces a track.
MatchReply ==
    /\ Len(response) > 0
    /\ response[1].msg \in {"Here is", "I found several tracks for the category"}

\* C4: when a Play turn finds a match, currentTrack at the end of the turn is
\* the selected track, the track of the single media object of the turn; a
\* Repeat turn after it emits a single media object for that same track.
C4_PlayedTrackIsCurrentAndRepeated ==
    /\ (PlayDone /\ MatchReply)
          => /\ Len(MediaOf(response)) = 1
             /\ currentTrack # None
             /\ MediaOf(response)[1] = generateMediaResponse(currentTrack[1])
             /\ MediaOf(response)[1].media = lastMedia
             /\ response[1].args[Len(response[1].args)]
                    = currentTrack[1].track_title
             /\ \E i \in 1..Len(Tracks) :
                    /\ currentTrack = Some(Tracks[i])
                    /\ i \in TitleHits(Tracks, PlayTerm)
                              \cup {j \in 1..Len(Tracks) :
                                      \/ includes(mapToLowerCase(Tracks[j].track_genre),
                                                  sanitizeTitle(PlayTerm))
                                      \/ includes(mapToLowerCase(Tracks[j].tags),
                                                  sanitizeTitle(PlayTerm))}
    /\ (pc = "done" /\ outcome = "ok" /\ req.intent = "Repeat"
           /\ lastMedia # None)
          => /\ Len(MediaOf(response)) = 1
             /\ MediaOf(response)[1].media = lastMedia
             /\ currentTrack # None
             /\ lastMedia = generateMediaResponse(currentTrack[1]).media

\* C4 witness: a Repeat turn has emitted the media object of a track that an
\* earlier Play turn selected, a track that is not the first of the catalog.
C4_Witness ==
    /\ pc = "done" /\ outcome = "ok" /\ req.intent = "Repeat"
    /\ lastMedia # None
    /\ Len(MediaOf(response)) = 1
    /\ MediaOf(response)[1].media = lastMedia
    /\ lastMedia[1].url # Tracks[1].link

\* C5: currentTrack changes only in the handler step of a Play or Play Entity
\* turn that finds a match; a Play turn without a match and every other step
\* (Search, Repeat, Current, New, Help, Welcome, media status, the middleware,
\* the fetch) leave it as it was.
C5_CurrentTrackFrame ==
    [][currentTrack' # currentTrack
         => /\ pc = "handler"
            /\ req.intent \in {"Play", "Play Entity"}
            /\ PlayTerm # Undefined
            /\ \/ TitleHits(Tracks, PlayTerm) # {}
               \/ \E j \in 1..Len(Tracks) :
                     \/ includes(mapToLowerCase(Tracks[j].track_genre),
                                 sanitizeTitle(PlayTerm))
                     \/ includes(mapToLowerCase(Tracks[j].tags),
                                 sanitizeTitle(PlayTerm))
            /\ MediaOf(response') # <<>>]_vars

\* C5 witness: a Play turn has ended in no match while a track was playing,
\* and that track is still the current one.
C5_Witness ==
    /\ PlayDone
    /\ response[1].kind = "simple"
    /\ currentTrack # None
    /\ lastMedia = generateMediaResponse(currentTrack[1]).media

\* Positions of the tracks the term hits in a Search: the term is, case
\* ignored, part of the title or equal to a genre or to a tag.
SearchHits(tracks, term) ==
    {i \in 1..Len(tracks) :
        Contains(toLowerCase(tracks[i].track_title), toLowerCase(term))}
    \cup CategoryHits(tracks, term)

\* The titles of the tracks, in order.
TitlesOf(tracks) == [k \in 1..Len(tracks) |-> tracks[k].track_title]

\* The first n entries of a sequence.
FirstN(q, n) == [k \in 1..(IF Len(q) < n THEN Len(q) ELSE n) |-> q[k]]

\* C6: Search counts as hits exactly the tracks whose title contains the term
\* or one of whose genres or tags equals it, case ignored, in catalog order;
\* one hit: it names that title; several: it gives their number and the first
\* three titles; none: the fallback text and a suggestion list.  Two tracks
\* tagged alike and nothing else hit: it reports 2 tracks.
C6_SearchReportsHits ==
    (pc = "done" /\ outcome = "ok" /\ req.intent = "Search")
        => LET hits == TitlesOf(InCatalogOrder(Tracks,
                                               SearchHits(Tracks, req.search)))
           IN  /\ Len(hits) = 1
                     => response = <<Text("There is 1 track. It is called",
                                          <<hits[1]>>)>>
               /\ Len(hits) > 1
                     => /\ Len(response) = 3
                        /\ response[1].kind = "text"
                        /\ response[1].count = Len(hits)
                        /\ response[2]
                             = Text("The first three are called",
                                    <<join(FirstN(hits, 3), <<",", " ">>)>>)
                        /\ response[3].kind = "suggestions"
               /\ Len(hits) = 0
                     => /\ Len(response) = 2
                        /\ response[1].kind = "simple"
                        /\ response[1].msg = "I am unable to find that audio"
                        /\ response[2].kind = "suggestions"
                        /\ Len(response[2].items) = NumSuggestions
               /\ (/\ Cardinality(CategoryHits(Tracks, req.search)) = 2
                   /\ SearchHits(Tracks, req.search)
                         = CategoryHits(Tracks, req.search))
                     => response[1].count = 2

\* C6 witness: a Search has found more than three tracks, among them one hit
\* by genre only.
C6_Witness ==
    /\ pc = "done" /\ outcome = "ok" /\ req.intent = "Search"
    /\ response[1].count > 3
    /\ \E i \in CategoryHits(Tracks, req.search) :
          ~Contains(toLowerCase(Tracks[i].track_title), toLowerCase(req.search))

\* A turn whose handler ends by asking getSuggestions' chips: they are the
\* items of its last fragment.
EndsWithSuggestions ==
    /\ pc = "done" /\ outcome = "ok"
    /\ req.intent \in {"Default Welcome Intent", "Repeat", "Current",
                        "actions.intent.MEDIA_STATUS"}

\* C7 (as claimed): getSuggestions over a non-empty catalog gives exactly six
\* entries; entry i is the title of some track when i mod 3 = 0, the first
\* genre of some track when i mod 3 = 1 and the first tag of some track when
\* i mod 3 = 2, never a missing value.
C7_SuggestionsFromCatalog ==
    EndsWithSuggestions
        => LET items == response[Len(response)].items
           IN  /\ Len(items) = 6
               /\ \A k \in 1..Len(items) :
                     /\ items[k] # Undefined
                     /\ \E i \in 1..Len(Tracks) :
                           CASE (k - 1) % 3 = 0 ->
                                  items[k] = Tracks[i].track_title
                             [] (k - 1) % 3 = 1 ->
                                  /\ Len(Tracks[i].track_genre) > 0
                                  /\ items[k] = Tracks[i].track_genre[1]
                             [] (k - 1) % 3 = 2 ->
                                  /\ Len(Tracks[i].tags) > 0
                                  /\ items[k] = Tracks[i].tags[1]

\* C8: after a fetch has succeeded no fetch is started again in the session,
\* and once conv.data.json is set no later step assigns or changes it.
C8_CatalogFetchedOnce ==
    /\ [](fetches <= 1)
    /\ [][json # None
            => /\ json' = json
               /\ pc' # "fetching"
               /\ fetches' = fetches]_vars

\* C8 witness: a turn has been answered from the catalog an earlier turn
\* fetched, without a fetch of its own.
C8_Witness ==
    /\ pc = "done" /\ outcome = "ok"
    /\ fetches = 1
    /\ attempts = 0
    /\ json # None

\* C9: a Repeat turn whose handler runs while no track has been played in the
\* session ends without failure with the fallback message followed by a
\* suggestion list, without a media object, and currentTrack stays absent.
C9_RepeatWithoutTrack ==
    (pc = "done" /\ req.intent = "Repeat" /\ json # None /\ lastMedia = None)
        => /\ outcome = "ok"
           /\ Len(response) = 2
           /\ response[1]
                = Text("Sorry, I do not know what track you want to play", <<>>)
           /\ response[2].kind = "suggestions"
           /\ Len(response[2].items) = NumSuggestions
           /\ MediaOf(response) = <<>>
           /\ currentTrack = None

\* C9 witness: such a Repeat turn has ended, in a session that had earlier
\* turns (the catalog was fetched by one of them).
C9_Witness ==
    /\ pc = "done" /\ req.intent = "Repeat" /\ outcome = "ok"
    /\ lastMedia = None
    /\ currentTrack = None
    /\ attempts = 0
    /\ Len(response) = 2

\* C10: a handler starts only after the catalog is in conv.data (the fetch is
\* awaited); a turn fetches at most once; when the fetch fails the turn ends
\* as a failure in that very step, with no fragment emitted, the handler not
\* run, and json and currentTrack as they were.
C10_FetchAwaitedAndFailureEndsTurn ==
    /\ [](pc = "handler" => json # None)
    /\ [](attempts <= 1)
    /\ [](outcome = "failed"
            => pc = "done" /\ response = <<>> /\ json = None)
    /\ [][/\ pc' = "handler" => json' # None /\ pc \in {"middleware", "fetching"}
          /\ (pc = "fetching" /\ json' = None)
                => /\ outcome' = "failed"
                   /\ pc' = "done"
                   /\ attempts' = attempts
                   /\ response' = <<>>
                   /\ json' = json
                   /\ currentTrack' = currentTrack
          /\ outcome = "failed" => pc' = "idle"]_vars

\* C10 witness: a turn has ended as a failure after its one fetch.
C10_Witness ==
    /\ pc = "done" /\ outcome = "failed"
    /\ attempts = 1
    /\ response = <<>>
    /\ json = None

\* C11: whenever currentTrack is present it is one of the tracks of the
\* session's catalog; every media object a Play or Repeat turn emits, and the
\* title and blurb a Current turn speaks, are those of a catalog track.
C11_CurrentTrackInCatalog ==
    /\ currentTrack # None
          => /\ json # None
             /\ \E i \in 1..Len(Tracks) : currentTrack = Some(Tracks[i])
    /\ (pc = "done" /\ outcome = "ok"
           /\ req.intent \in {"Play", "Play Entity", "Repeat"})
          => \A k \in 1..Len(response) :
                response[k].kind = "media"
                    => \E i \in 1..Len(Tracks) :
                          response[k] = generateMediaResponse(Tracks[i])
    /\ (pc = "done" /\ outcome = "ok" /\ req.intent = "Current"
           /\ currentTrack # None)
          => \E i \in 1..Len(Tracks) :
                response[1] = Text("This is ... from Tabletop Audio",
                                   <<Tracks[i].track_title,
                                     <<Tracks[i].flavor_text>> >>)

\* C11 witness: a Current turn has spoken the title and blurb of the current
\* track, a track of the catalog that is not its first and whose title
\* differs from its sanitized form.
C11_Witness ==
    /\ pc = "done" /\ outcome = "ok" /\ req.intent = "Current"
    /\ currentTrack # None
    /\ \E i \in 2..Len(Tracks) :
          /\ currentTrack = Some(Tracks[i])
          /\ Tracks[i].track_title # sanitizeTitle(Tracks[i].track_title)
          /\ response[1].args = <<Tracks[i].track_title,
                                  <<Tracks[i].flavor_text>> >>

====
